---- MODULE Spec2Model ----
(***************************************************************************)
(* Model of ax/telemetry/scheduler.py: the two telemetry records built     *)
(* from a Scheduler (SchedulerCreatedRecord, SchedulerCompletedRecord),    *)
(* their from_scheduler constructors and their flatten methods.            *)
(*                                                                         *)
(* Python values are tagged so that None, integers, strings and objects    *)
(* stay distinguishable: [tag, i, s].  A dict that may hold both scalars   *)
(* and nested dicts is the pair [scalars, nested].                         *)
(***************************************************************************)
EXTENDS Integers, Sequences, FiniteSets, TLC

VARIABLES scheduler, mutations, record, mapping

vars == <<scheduler, mutations, record, mapping>>

(* ------------------------------ bounds -------------------------------- *)

\* batch_size ranges over None and -1 .. MaxBatchSize
MaxBatchSize == 2
\* the two error counters range over -1 .. MaxCount
MaxCount == 1
\* at most this many attributes are missing from a scheduler
MaxMissing == 1
\* at most this many later changes are made to the scheduler
MaxMutations == 1

(* --------------------------- Python values ---------------------------- *)

NoneV == [tag |-> "none", i |-> 0, s |-> ""]

IntV(n) == [tag |-> "int", i |-> n, s |-> ""]

StrV(x) == [tag |-> "str", i |-> 0, s |-> x]

\* an instance of the class named cls
ObjV(cls) == [tag |-> "obj", i |-> 0, s |-> cls]

\* `x or y`: y when x is falsy (None, 0, the empty string), else x
PyOr(x, y) ==
    IF x.tag = "none" \/ (x.tag = "int" /\ x.i = 0) \/ (x.tag = "str" /\ x.s = "")
    THEN y
    ELSE x

\* `x.__class__.__name__`
ClassName(x) ==
    CASE x.tag = "obj" -> StrV(x.s)
      [] x.tag = "int" -> StrV("int")
      [] x.tag = "str" -> StrV("str")
      [] OTHER -> StrV("NoneType")

EmptyMap == [k \in {} |-> NoneV]

\* a merge that keeps the value already there
DictMerge_first_wins(a, b) ==
    [k \in (DOMAIN a) \cup (DOMAIN b) |-> IF k \in DOMAIN a THEN a[k] ELSE b[k]]

\* `{**a, **b}`: the keys of both, b's value where both have the key
DictMerge(a, b) ==
    [k \in (DOMAIN a) \cup (DOMAIN b) |-> IF k \in DOMAIN b THEN b[k] ELSE a[k]]

(* ------------------- the collaborators' records ----------------------- *)

\* field names the nested records may carry; some collide with the outer
\* records' fields and with each other
ExperimentCreatedFields == {"experiment_name", "arms_per_trial"}

GenerationStrategyCreatedFields ==
    {"generation_strategy_name", "experiment_name", "transformed_dimensionality"}

ExperimentCompletedFields == {"num_completed_trials", "best_point_quality"}

\* every mapping from a subset of keys to the value v
FieldMaps(keys, v) == {[k \in ks |-> v] : ks \in SUBSET keys}

\* an experiment is known by the summaries its record builders derive from it
Experiments ==
    [created : FieldMaps(ExperimentCreatedFields, IntV(7)),
     completed : FieldMaps(ExperimentCompletedFields, IntV(9))]

GenerationStrategies ==
    [created : FieldMaps(GenerationStrategyCreatedFields, IntV(8))]

ExperimentCreatedRecord_from_experiment(experiment) == experiment.created

ExperimentCompletedRecord_from_experiment(experiment) == experiment.completed

GenerationStrategyCreatedRecord_from_generation_strategy(generation_strategy) ==
    generation_strategy.created

(* ---------------------------- the scheduler --------------------------- *)

BatchSizes == {NoneV} \cup {IntV(n) : n \in -1 .. MaxBatchSize}

Counts == {IntV(n) : n \in -1 .. MaxCount}

EarlyStoppingStrategies == {NoneV, ObjV("PercentileEarlyStoppingStrategy")}

GlobalStoppingStrategies == {NoneV, ObjV("ImprovementGlobalStoppingStrategy")}

SchedulerOptions ==
    [total_trials : {NoneV, IntV(100)},
     max_pending_trials : {IntV(10)},
     batch_size : BatchSizes,
     early_stopping_strategy : EarlyStoppingStrategies,
     global_stopping_strategy : GlobalStoppingStrategies]

\* the attributes from_scheduler reads, by path from the scheduler
CreatedReads ==
    {"experiment", "generation_strategy", "options", "options.total_trials",
     "options.max_pending_trials", "options.batch_size",
     "options.early_stopping_strategy", "options.global_stopping_strategy"}

CompletedReads ==
    {"experiment", "_num_metric_fetch_e_encountered", "_num_trials_bad_due_to_err"}

Attributes == CreatedReads \cup CompletedReads

MissingSets == {m \in SUBSET Attributes : Cardinality(m) <= MaxMissing}

DefaultExperiment ==
    [created |-> [k \in {"experiment_name"} |-> IntV(7)],
     completed |-> [k \in {"num_completed_trials"} |-> IntV(9)]]

DefaultGenerationStrategy ==
    [created |-> [k \in {"generation_strategy_name"} |-> IntV(8)]]

DefaultOptions ==
    [total_trials |-> IntV(100), max_pending_trials |-> IntV(10), batch_size |-> NoneV,
     early_stopping_strategy |-> NoneV, global_stopping_strategy |-> NoneV]

\* a scheduler: its attributes, and the set of attribute paths it lacks
Scheduler(experiment, generation_strategy, options, e, b, missing) ==
    [experiment |-> experiment,
     generation_strategy |-> generation_strategy,
     options |-> options,
     _num_metric_fetch_e_encountered |-> e,
     _num_trials_bad_due_to_err |-> b,
     missing |-> missing]

\* well-formed schedulers: every setting of the options
SchedulersByOptions ==
    {Scheduler(DefaultExperiment, DefaultGenerationStrategy, o, IntV(0), IntV(1), {}) :
        o \in SchedulerOptions}

\* well-formed schedulers: every value of the two error counters
SchedulersByCounts ==
    {Scheduler(DefaultExperiment, DefaultGenerationStrategy, DefaultOptions, e, b, {}) :
        e \in Counts, b \in Counts}

\* well-formed schedulers: every shape of the nested records
SchedulersByRecords ==
    {Scheduler(x, g, DefaultOptions, IntV(0), IntV(1), {}) :
        x \in Experiments, g \in GenerationStrategies}

SetOptions ==
    [total_trials |-> IntV(100), max_pending_trials |-> IntV(10),
     batch_size |-> IntV(MaxBatchSize),
     early_stopping_strategy |-> ObjV("PercentileEarlyStoppingStrategy"),
     global_stopping_strategy |-> ObjV("ImprovementGlobalStoppingStrategy")]

UnsetOptions ==
    [total_trials |-> NoneV, max_pending_trials |-> IntV(10), batch_size |-> NoneV,
     early_stopping_strategy |-> NoneV, global_stopping_strategy |-> NoneV]

\* schedulers lacking attributes, with the optional fields all set or all unset
SchedulersByMissing ==
    {Scheduler(DefaultExperiment, DefaultGenerationStrategy, o, IntV(0), IntV(1), m) :
        o \in {SetOptions, UnsetOptions}, m \in MissingSets}

Schedulers ==
    SchedulersByOptions \cup SchedulersByCounts \cup SchedulersByRecords
        \cup SchedulersByMissing

\* getattr succeeds: the attribute and the object holding it are there
HasAttr(s, path) ==
    /\ path \notin s.missing
    /\ (path \in {"options.total_trials", "options.max_pending_trials",
                  "options.batch_size", "options.early_stopping_strategy",
                  "options.global_stopping_strategy"} => "options" \notin s.missing)

(* ----------------------- SchedulerCreatedRecord ----------------------- *)

scheduler_total_trials(s) == s.options.total_trials

scheduler_max_pending_trials(s) == s.options.max_pending_trials

\* a test for None in place of `or`
arms_per_trial_none_only(s) ==
    IF s.options.batch_size = NoneV THEN IntV(1) ELSE s.options.batch_size

\* If batch_size is None then we are using single-Arm trials
arms_per_trial(s) == PyOr(s.options.batch_size, IntV(1))

\* the class name read from the other strategy
early_stopping_strategy_cls_from_global(s) ==
    IF s.options.early_stopping_strategy = NoneV
    THEN NoneV
    ELSE ClassName(s.options.global_stopping_strategy)

early_stopping_strategy_cls(s) ==
    IF s.options.early_stopping_strategy = NoneV
    THEN NoneV
    ELSE ClassName(s.options.early_stopping_strategy)

global_stopping_strategy_cls(s) ==
    IF s.options.global_stopping_strategy = NoneV
    THEN NoneV
    ELSE ClassName(s.options.global_stopping_strategy)

\* another placeholder
transformed_dimensionality_zero == IntV(0)

transformed_dimensionality == IntV(-1)

\* batch_size read with a default, as getattr(options, "batch_size", None)
SchedulerCreatedRecord_raises_defaulting(s) ==
    \E p \in CreatedReads \ {"options.batch_size"} : ~HasAttr(s, p)

\* evaluating the arguments of cls(...) raises AttributeError
SchedulerCreatedRecord_raises(s) == \E p \in CreatedReads : ~HasAttr(s, p)

\* the record cls(...) constructs
SchedulerCreatedRecord(s) ==
    [experiment_created_record |-> ExperimentCreatedRecord_from_experiment(s.experiment),
     generation_strategy_created_record |->
        GenerationStrategyCreatedRecord_from_generation_strategy(s.generation_strategy),
     scheduler_total_trials |-> scheduler_total_trials(s),
     scheduler_max_pending_trials |-> scheduler_max_pending_trials(s),
     arms_per_trial |-> arms_per_trial(s),
     early_stopping_strategy_cls |-> early_stopping_strategy_cls(s),
     global_stopping_strategy_cls |-> global_stopping_strategy_cls(s),
     transformed_dimensionality |-> transformed_dimensionality]

\* the call's outcome: the scheduler afterwards, the exception raised ("" for
\* none) and the record returned (none when it raised)
SchedulerCreatedRecord_from_scheduler(s) ==
    IF SchedulerCreatedRecord_raises(s)
    THEN [scheduler |-> s, raised |-> "AttributeError", ret |-> <<>>]
    ELSE [scheduler |-> s, raised |-> "", ret |-> <<SchedulerCreatedRecord(s)>>]

(* ---------------------- SchedulerCompletedRecord ---------------------- *)

best_point_quality == IntV(-1)

model_fit_quality == IntV(-1)

\* the other counter
num_metric_fetch_e_encountered_swapped(s) == s._num_trials_bad_due_to_err

num_metric_fetch_e_encountered(s) == s._num_metric_fetch_e_encountered

num_trials_bad_due_to_err(s) == s._num_trials_bad_due_to_err

SchedulerCompletedRecord_raises(s) == \E p \in CompletedReads : ~HasAttr(s, p)

SchedulerCompletedRecord(s) ==
    [experiment_completed_record |-> ExperimentCompletedRecord_from_experiment(s.experiment),
     best_point_quality |-> best_point_quality,
     model_fit_quality |-> model_fit_quality,
     num_metric_fetch_e_encountered |-> num_metric_fetch_e_encountered(s),
     num_trials_bad_due_to_err |-> num_trials_bad_due_to_err(s)]

\* a call that resets the counters it has read
SchedulerCompletedRecord_from_scheduler_resetting(s) ==
    IF SchedulerCompletedRecord_raises(s)
    THEN [scheduler |-> s, raised |-> "AttributeError", ret |-> <<>>]
    ELSE [scheduler |-> [s EXCEPT !._num_metric_fetch_e_encountered = IntV(0),
                                  !._num_trials_bad_due_to_err = IntV(0)],
          raised |-> "", ret |-> <<SchedulerCompletedRecord(s)>>]

SchedulerCompletedRecord_from_scheduler(s) ==
    IF SchedulerCompletedRecord_raises(s)
    THEN [scheduler |-> s, raised |-> "AttributeError", ret |-> <<>>]
    ELSE [scheduler |-> s, raised |-> "", ret |-> <<SchedulerCompletedRecord(s)>>]

(* ------------------------------ flatten ------------------------------- *)

\* the fields whose declared type is itself a dataclass
NestedRecordFields ==
    {"experiment_created_record", "generation_strategy_created_record",
     "experiment_completed_record"}

\* dataclasses.asdict: a fresh dict of the fields, nested records turned to dicts
asdict(self) ==
    [scalars |-> [k \in (DOMAIN self) \ NestedRecordFields |-> self[k]],
     nested |-> [k \in (DOMAIN self) \cap NestedRecordFields |-> self[k]]]

\* d.pop(key): the value removed ...
PopValue(d, key) == d.nested[key]

\* ... and the dict that is left
PopRest(d, key) ==
    [scalars |-> d.scalars,
     nested |-> [k \in (DOMAIN d.nested) \ {key} |-> d.nested[k]]]

\* {**d, **m} for a dict m of scalars
DictUpdate(d, m) ==
    [scalars |-> DictMerge(d.scalars, m),
     nested |-> [k \in (DOMAIN d.nested) \ (DOMAIN m) |-> d.nested[k]]]

\* d.pop(key) raises KeyError
PopRaises(d, key) == key \notin DOMAIN d.nested

\* a flatten that neither pops nor merges the generation-strategy record
SchedulerCreatedRecord_flatten_unpopped(self) ==
    LET self_dict == asdict(self)
        experiment_created_record_dict == PopValue(self_dict, "experiment_created_record")
        d1 == PopRest(self_dict, "experiment_created_record")
    IN  IF PopRaises(self_dict, "experiment_created_record")
        THEN [self |-> self, raised |-> "KeyError", ret |-> <<>>]
        ELSE [self |-> self, raised |-> "",
              ret |-> <<DictUpdate(d1, experiment_created_record_dict)>>]

\* a flatten that pops the nested records from the record's own fields
SchedulerCreatedRecord_flatten_in_place(self) ==
    LET experiment_created_record_dict == self.experiment_created_record
        generation_strategy_created_record_dict == self.generation_strategy_created_record
        d2 == [scalars |-> [k \in (DOMAIN self) \ NestedRecordFields |-> self[k]],
               nested |-> EmptyMap]
    IN  [self |-> [self EXCEPT !.experiment_created_record = EmptyMap,
                               !.generation_strategy_created_record = EmptyMap],
         raised |-> "",
         ret |-> <<DictUpdate(DictUpdate(d2, experiment_created_record_dict),
                              generation_strategy_created_record_dict)>>]

\* the call's outcome: the record afterwards, the exception raised ("" for
\* none) and the mapping returned (none when it raised)
SchedulerCreatedRecord_flatten(self) ==
    LET self_dict == asdict(self)
        experiment_created_record_dict == PopValue(self_dict, "experiment_created_record")
        d1 == PopRest(self_dict, "experiment_created_record")
        generation_strategy_created_record_dict ==
            PopValue(d1, "generation_strategy_created_record")
        d2 == PopRest(d1, "generation_strategy_created_record")
    IN  IF \/ PopRaises(self_dict, "experiment_created_record")
           \/ PopRaises(d1, "generation_strategy_created_record")
        THEN [self |-> self, raised |-> "KeyError", ret |-> <<>>]
        ELSE [self |-> self, raised |-> "",
              ret |-> <<DictUpdate(DictUpdate(d2, experiment_created_record_dict),
                                   generation_strategy_created_record_dict)>>]

SchedulerCompletedRecord_flatten(self) ==
    LET self_dict == asdict(self)
        experiment_completed_record_dict == PopValue(self_dict, "experiment_completed_record")
        d1 == PopRest(self_dict, "experiment_completed_record")
    IN  IF PopRaises(self_dict, "experiment_completed_record")
        THEN [self |-> self, raised |-> "KeyError", ret |-> <<>>]
        ELSE [self |-> self, raised |-> "",
              ret |-> <<DictUpdate(d1, experiment_completed_record_dict)>>]

(* --------------------------- the state machine ------------------------ *)

\* record: the last from_scheduler call: its class, how often it was made on
\* the scheduler as it is (0, 1, or 2 for more than once), the count of changes
\* to the scheduler when it was made, its argument and its outcome
NotCalled ==
    [cls |-> "", calls |-> 0, at |-> 0, arg |-> <<>>, raised |-> "", ret |-> <<>>]

\* mapping: the last flatten call: its class, the record it was called on, its
\* outcome, and the returned mapping as the caller has it now
NotFlattened == [cls |-> "", of |-> <<>>, raised |-> "", ret |-> <<>>, cur |-> <<>>]

\* the number of calls of cls.from_scheduler on the unchanged scheduler, once
\* one more is made
CallsAfter(cls) ==
    IF record.cls = cls /\ record.at = mutations THEN 2 ELSE 1

Init ==
    /\ scheduler \in Schedulers
    /\ mutations = 0
    /\ record = NotCalled
    /\ mapping = NotFlattened

\* record = SchedulerCreatedRecord.from_scheduler(scheduler)
CreatedFromScheduler ==
    LET r == SchedulerCreatedRecord_from_scheduler(scheduler)
    IN  /\ scheduler' = r.scheduler
        /\ record' = [cls |-> "SchedulerCreatedRecord",
                      calls |-> CallsAfter("SchedulerCreatedRecord"),
                      at |-> mutations, arg |-> <<scheduler>>,
                      raised |-> r.raised, ret |-> r.ret]
        /\ UNCHANGED <<mutations, mapping>>

\* record = SchedulerCompletedRecord.from_scheduler(scheduler)
CompletedFromScheduler ==
    LET r == SchedulerCompletedRecord_from_scheduler(scheduler)
    IN  /\ scheduler' = r.scheduler
        /\ record' = [cls |-> "SchedulerCompletedRecord",
                      calls |-> CallsAfter("SchedulerCompletedRecord"),
                      at |-> mutations, arg |-> <<scheduler>>,
                      raised |-> r.raised, ret |-> r.ret]
        /\ UNCHANGED <<mutations, mapping>>

\* mapping = record.flatten(), record a SchedulerCreatedRecord
CreatedFlatten ==
    /\ record.cls = "SchedulerCreatedRecord"
    /\ Len(record.ret) = 1
    /\ LET r == SchedulerCreatedRecord_flatten(record.ret[1])
       IN  /\ record' = [record EXCEPT !.ret = <<r.self>>]
           /\ mapping' = [cls |-> record.cls, of |-> record.ret, raised |-> r.raised,
                          ret |-> r.ret, cur |-> r.ret]
    /\ UNCHANGED <<scheduler, mutations>>

\* mapping = record.flatten(), record a SchedulerCompletedRecord
CompletedFlatten ==
    /\ record.cls = "SchedulerCompletedRecord"
    /\ Len(record.ret) = 1
    /\ LET r == SchedulerCompletedRecord_flatten(record.ret[1])
       IN  /\ record' = [record EXCEPT !.ret = <<r.self>>]
           /\ mapping' = [cls |-> record.cls, of |-> record.ret, raised |-> r.raised,
                          ret |-> r.ret, cur |-> r.ret]
    /\ UNCHANGED <<scheduler, mutations>>

\* the keys a caller assigns to in a returned mapping
ChangedKeys == {"arms_per_trial", "model_fit_quality"}

\* the caller assigns to a key of the mapping flatten returned
ChangeMapping ==
    /\ Len(mapping.ret) = 1
    /\ mapping.cur = mapping.ret
    /\ \E k \in ChangedKeys \cap DOMAIN mapping.cur[1].scalars :
          mapping' = [mapping EXCEPT !.cur[1].scalars[k] = StrV("changed")]
    /\ UNCHANGED <<scheduler, mutations, record>>

\* the scheduler's owner changes it: another batch size
SetBatchSize ==
    /\ mutations < MaxMutations
    /\ \E n \in BatchSizes \ {scheduler.options.batch_size} :
          scheduler' = [scheduler EXCEPT !.options.batch_size = n]
    /\ mutations' = mutations + 1
    /\ UNCHANGED <<record, mapping>>

\* the scheduler's owner changes it: one more metric-fetch error, one more bad trial
CountErrors ==
    /\ mutations < MaxMutations
    /\ scheduler._num_metric_fetch_e_encountered.i < MaxCount
    /\ scheduler._num_trials_bad_due_to_err.i < MaxCount
    /\ scheduler' =
          [scheduler EXCEPT !._num_metric_fetch_e_encountered = IntV(@.i + 1),
                            !._num_trials_bad_due_to_err = IntV(@.i + 1)]
    /\ mutations' = mutations + 1
    /\ UNCHANGED <<record, mapping>>

Next ==
    \/ CreatedFromScheduler
    \/ CompletedFromScheduler
    \/ CreatedFlatten
    \/ CompletedFlatten
    \/ ChangeMapping
    \/ SetBatchSize
    \/ CountErrors

Spec == Init /\ [][Next]_vars

(* ------------------------------ properties ---------------------------- *)

\* the scalar fields each class declares
SchedulerCreatedRecordFields ==
    {"scheduler_total_trials", "scheduler_max_pending_trials", "arms_per_trial",
     "early_stopping_strategy_cls", "global_stopping_strategy_cls",
     "transformed_dimensionality"}

SchedulerCompletedRecordFields ==
    {"best_point_quality", "model_fit_quality", "num_metric_fetch_e_encountered",
     "num_trials_bad_due_to_err"}

BuiltCreated == record.cls = "SchedulerCreatedRecord" /\ Len(record.ret) = 1

BuiltCompleted == record.cls = "SchedulerCompletedRecord" /\ Len(record.ret) = 1

FlatCreated == mapping.cls = "SchedulerCreatedRecord"

ScalarTags == {"none", "int", "str"}

\* the keys of the nested records of the record r
NestedKeys(r) == UNION {DOMAIN r[f] : f \in (DOMAIN r) \cap NestedRecordFields}

\* C1: on a scheduler lacking no attribute, from_scheduler returns a record, and
\* flatten on a built record returns, without raising, a mapping whose keys are
\* exactly the record's scalar field names together with the field names of its
\* nested records; the names of the nested-record fields are no keys and no
\* value is a nested mapping.
C1_FlattenIsFlatUnion ==
    /\ (record.cls # "" /\ record.arg[1].missing = {}) =>
          (record.raised = "" /\ Len(record.ret) = 1)
    /\ mapping.cls # "" =>
          /\ mapping.raised = ""
          /\ Len(mapping.ret) = 1
          /\ LET self == mapping.of[1]
                 m == mapping.ret[1]
                 own == IF FlatCreated THEN SchedulerCreatedRecordFields
                                       ELSE SchedulerCompletedRecordFields
             IN  /\ DOMAIN m.nested = {}
                 /\ DOMAIN m.scalars = own \cup NestedKeys(self)
                 /\ (DOMAIN m.scalars) \cap NestedRecordFields = {}
                 /\ \A k \in DOMAIN m.scalars : m.scalars[k].tag \in ScalarTags

\* a SchedulerCreatedRecord with two non-empty nested records was flattened
C1_Witness ==
    /\ FlatCreated
    /\ Len(mapping.ret) = 1
    /\ Cardinality(DOMAIN mapping.of[1].experiment_created_record) = 2
    /\ Cardinality(DOMAIN mapping.of[1].generation_strategy_created_record) = 3
    /\ Cardinality(DOMAIN mapping.ret[1].scalars) = 8

\* C2 as stated: arms_per_trial is 1 when batch_size is None and equals
\* batch_size for every value that is set.
C2_ArmsPerTrialIsBatchSizeWhenSet ==
    BuiltCreated =>
        LET b == record.arg[1].options.batch_size
        IN  record.ret[1].arms_per_trial = (IF b = NoneV THEN IntV(1) ELSE b)

\* C2 amended: arms_per_trial is 1 when batch_size is None or 0 and equals
\* batch_size for every other value.
C2_ArmsPerTrialIsBatchSizeOrOne ==
    BuiltCreated =>
        LET b == record.arg[1].options.batch_size
        IN  record.ret[1].arms_per_trial =
                (IF b = NoneV \/ b = IntV(0) THEN IntV(1) ELSE b)

\* a record was built from a scheduler whose batch_size is 0
C2_Witness ==
    /\ BuiltCreated
    /\ record.arg[1].options.batch_size = IntV(0)
    /\ record.ret[1].arms_per_trial = IntV(1)

\* C3: every record built by SchedulerCreatedRecord.from_scheduler has an
\* integer arms_per_trial >= 1.
C3_ArmsPerTrialAtLeastOne ==
    BuiltCreated =>
        (record.ret[1].arms_per_trial.tag = "int" /\ record.ret[1].arms_per_trial.i >= 1)

\* C4: early_stopping_strategy_cls is None exactly when the early stopping
\* strategy is None and is otherwise the name of that strategy's class;
\* global_stopping_strategy_cls likewise, from the global stopping strategy.
C4_StrategyClassNames ==
    BuiltCreated =>
        LET o == record.arg[1].options
            r == record.ret[1]
        IN  /\ (r.early_stopping_strategy_cls = NoneV) <=> (o.early_stopping_strategy = NoneV)
            /\ o.early_stopping_strategy # NoneV =>
                  r.early_stopping_strategy_cls = StrV(o.early_stopping_strategy.s)
            /\ (r.global_stopping_strategy_cls = NoneV) <=> (o.global_stopping_strategy = NoneV)
            /\ o.global_stopping_strategy # NoneV =>
                  r.global_stopping_strategy_cls = StrV(o.global_stopping_strategy.s)

\* a record was built with an early stopping strategy and no global one
C4_Witness ==
    /\ BuiltCreated
    /\ record.arg[1].options.early_stopping_strategy = ObjV("PercentileEarlyStoppingStrategy")
    /\ record.arg[1].options.global_stopping_strategy = NoneV
    /\ record.ret[1].early_stopping_strategy_cls = StrV("PercentileEarlyStoppingStrategy")

\* C5: transformed_dimensionality of every built SchedulerCreatedRecord and
\* best_point_quality and model_fit_quality of every built
\* SchedulerCompletedRecord are -1, and flatten reports -1 under each of these
\* keys that no nested record carries.
C5_PlaceholdersAreMinusOne ==
    /\ BuiltCreated => record.ret[1].transformed_dimensionality = IntV(-1)
    /\ BuiltCompleted =>
          /\ record.ret[1].best_point_quality = IntV(-1)
          /\ record.ret[1].model_fit_quality = IntV(-1)
    /\ (mapping.cls # "" /\ Len(mapping.ret) = 1) =>
          \A k \in {"transformed_dimensionality", "best_point_quality", "model_fit_quality"} :
              (k \in DOMAIN mapping.of[1] /\ k \notin NestedKeys(mapping.of[1])) =>
                  (k \in DOMAIN mapping.ret[1].scalars /\ mapping.ret[1].scalars[k] = IntV(-1))

\* a SchedulerCreatedRecord whose nested records carry other keys was flattened
C5_Witness ==
    /\ FlatCreated
    /\ Len(mapping.ret) = 1
    /\ NestedKeys(mapping.of[1]) = {"experiment_name", "generation_strategy_name"}
    /\ mapping.ret[1].scalars["transformed_dimensionality"] = IntV(-1)

\* C6: num_metric_fetch_e_encountered is the scheduler's metric-fetch-error
\* counter and num_trials_bad_due_to_err its bad-trials counter, whatever the
\* two values are.
C6_CountersCopied ==
    BuiltCompleted =>
        /\ record.ret[1].num_metric_fetch_e_encountered =
              record.arg[1]._num_metric_fetch_e_encountered
        /\ record.ret[1].num_trials_bad_due_to_err =
              record.arg[1]._num_trials_bad_due_to_err

\* a record was built from a negative and a different, non-negative counter
C6_Witness ==
    /\ BuiltCompleted
    /\ record.arg[1]._num_metric_fetch_e_encountered = IntV(-1)
    /\ record.arg[1]._num_trials_bad_due_to_err = IntV(0)
    /\ record.ret[1].num_metric_fetch_e_encountered = IntV(-1)

\* C7: a built record never changes: a step that produces or changes a mapping
\* (flatten, an assignment to a returned mapping) leaves the record as it was,
\* a step that changes the scheduler leaves record and mapping as they were,
\* and flatten called again on the same record returns the same mapping.
C7_RecordsImmutable ==
    [][/\ mapping' # mapping => record' = record
       /\ scheduler' # scheduler => (record' = record /\ mapping' = mapping)
       /\ (mapping.cls # "" /\ mapping'.cls = mapping.cls /\ mapping'.of = mapping.of) =>
             (mapping'.ret = mapping.ret /\ mapping'.raised = mapping.raised)]_vars

\* a record was flattened, the mapping assigned to and the scheduler changed,
\* and the record is still the one built from the scheduler as it was
C7_Witness ==
    /\ BuiltCreated
    /\ FlatCreated
    /\ mapping.of = record.ret
    /\ mapping.cur # mapping.ret
    /\ mutations > record.at
    /\ record.arg[1] # scheduler
    /\ record.ret[1] = SchedulerCreatedRecord(record.arg[1])

\* C8: from_scheduler raises AttributeError and returns no record exactly when
\* the scheduler lacks an attribute the call reads; otherwise, whichever
\* optional fields are None, it raises nothing and returns a record.
C8_MissingAttributeRaises ==
    record.cls # "" =>
        LET s == record.arg[1]
            reads == IF record.cls = "SchedulerCreatedRecord"
                     THEN CreatedReads ELSE CompletedReads
        IN  IF s.missing \cap reads # {}
            THEN record.raised = "AttributeError" /\ record.ret = <<>>
            ELSE record.raised = "" /\ Len(record.ret) = 1

\* SchedulerCreatedRecord.from_scheduler was called on a scheduler whose
\* options lack batch_size, and raised
C8_Witness ==
    /\ record.cls = "SchedulerCreatedRecord"
    /\ record.arg[1].missing = {"options.batch_size"}
    /\ record.raised = "AttributeError"

\* C9: from_scheduler called again, with no change made to the scheduler in
\* between, has the same outcome as before, and no step but a change by the
\* scheduler's owner alters the scheduler.
C9_FromSchedulerRepeatable ==
    [][/\ (record.cls # "" /\ record'.cls = record.cls /\ record'.at = record.at) =>
             (record'.ret = record.ret /\ record'.raised = record.raised)
       /\ mutations' = mutations => scheduler' = scheduler]_vars

\* SchedulerCompletedRecord.from_scheduler was called twice on a scheduler with
\* non-zero counters and left it as it was
C9_Witness ==
    /\ BuiltCompleted
    /\ record.calls = 2
    /\ record.arg[1] = scheduler
    /\ scheduler._num_metric_fetch_e_encountered = IntV(1)
    /\ record.ret[1] = SchedulerCompletedRecord(scheduler)

\* C10: in the flattened mapping a key of several merged field sets has the
\* value of the set merged last: the generation-strategy record's over the
\* experiment record's over the outer record's for SchedulerCreatedRecord, the
\* experiment-completed record's over the outer record's for
\* SchedulerCompletedRecord; flatten raises nothing on a collision.
C10_LaterMergedWins ==
    (mapping.cls # "") =>
        /\ mapping.raised = ""
        /\ Len(mapping.ret) = 1
        /\ LET self == mapping.of[1]
               m == mapping.ret[1].scalars
               order == IF FlatCreated
                        THEN <<"generation_strategy_created_record",
                               "experiment_created_record">>
                        ELSE <<"experiment_completed_record">>
           IN  \A k \in DOMAIN m :
                  IF k \in DOMAIN self[order[1]] THEN m[k] = self[order[1]][k]
                  ELSE IF Len(order) = 2 /\ k \in DOMAIN self[order[2]]
                       THEN m[k] = self[order[2]][k]
                  ELSE k \in DOMAIN self /\ m[k] = self[k]

\* a SchedulerCreatedRecord was flattened in which the two nested records share
\* a key and each shares a key with the outer record
C10_Witness ==
    /\ FlatCreated
    /\ Len(mapping.ret) = 1
    /\ "arms_per_trial" \in DOMAIN mapping.of[1].experiment_created_record
    /\ "experiment_name" \in DOMAIN mapping.of[1].experiment_created_record
    /\ "experiment_name" \in DOMAIN mapping.of[1].generation_strategy_created_record
    /\ "transformed_dimensionality" \in DOMAIN mapping.of[1].generation_strategy_created_record
    /\ mapping.ret[1].scalars["experiment_name"] = IntV(8)
    /\ mapping.ret[1].scalars["arms_per_trial"] = IntV(7)
    /\ mapping.ret[1].scalars["transformed_dimensionality"] = IntV(8)

====
